---- MODULE Spec2Model ----
(***************************************************************************)
(* Model of src/univ3_arb_tracker.py: the Uniswap v3 two-pool sampler.     *)
(*                                                                         *)
(* The price arithmetic of the script is Python's decimal arithmetic at    *)
(* getcontext().prec = 40 (ROUND_HALF_EVEN, the default context, whose     *)
(* DivisionByZero and InvalidOperation signals raise).  It is modelled     *)
(* here digit by digit: a coefficient is a sequence of decimal digits,     *)
(* most significant first, and a Decimal is a sign, a coefficient and an   *)
(* exponent, as in Decimal.as_tuple().                                     *)
(***************************************************************************)
EXTENDS Integers, Sequences, FiniteSets, TLC

(***************************************************************************)
(* Natural numbers of any size, standing for Python's unbounded int: a     *)
(* sequence of digits, most significant first, with no leading zero (zero  *)
(* is <<0>>).  Sums and differences work on the decimal digits (base 10);  *)
(* products and quotients work on the same number regrouped in limbs of    *)
(* four digits (base 10000), which keeps every intermediate value within   *)
(* TLC's 32-bit integers.                                                  *)
(*                                                                         *)
(* The recursive operators test their accumulators first (Len(acc) >= 0,   *)
(* carry >= 0): TLC passes arguments unevaluated, and the test has each    *)
(* step evaluate its own instead of leaving one nested expression as deep  *)
(* as the number is long.  A value used more than once is passed as an     *)
(* argument rather than named in a LET: TLC evaluates an argument once,    *)
(* and its coverage analysis visits it once.                               *)
(***************************************************************************)
LimbBase == 10 * 10 * 10 * 10

RECURSIVE Strip(_)
Strip(d) ==
    IF Len(d) > 1 /\ d[1] = 0 THEN Strip(Tail(d)) ELSE d

\* The digit (or limb) of weight base^i, 0 beyond the most significant one.
DigitAt(d, i) ==
    IF i < Len(d) THEN d[Len(d) - i] ELSE 0

RECURSIVE AddRec(_, _, _, _, _, _)
AddRec(a, b, base, i, carry, acc) ==
    IF Len(acc) >= 0 /\ carry >= 0 /\ i >= Len(a) /\ i >= Len(b)
    THEN (IF carry = 0 THEN acc ELSE <<carry>> \o acc)
    ELSE LET t == DigitAt(a, i) + DigitAt(b, i) + carry
         IN  AddRec(a, b, base, i + 1, t \div base, <<t % base>> \o acc)

RECURSIVE SubRec(_, _, _, _, _, _)
SubRec(a, b, base, i, borrow, acc) ==
    IF Len(acc) >= 0 /\ borrow >= 0 /\ i >= Len(a)
    THEN acc
    ELSE LET t == DigitAt(a, i) - DigitAt(b, i) - borrow
         IN  SubRec(a, b, base, i + 1, IF t < 0 THEN 1 ELSE 0,
                    <<IF t < 0 THEN t + base ELSE t>> \o acc)

RECURSIVE LexCmp(_, _, _)
LexCmp(a, b, i) ==
    IF i > Len(a) THEN 0
    ELSE IF a[i] < b[i] THEN -1
    ELSE IF a[i] > b[i] THEN 1
    ELSE LexCmp(a, b, i + 1)

\* -1, 0 or 1 as a < b, a = b, a > b (in either base).
NatCmp(a, b) ==
    IF Len(a) < Len(b) THEN -1
    ELSE IF Len(a) > Len(b) THEN 1
    ELSE LexCmp(a, b, 1)

NatAdd(a, b) ==
    Strip(AddRec(a, b, 10, 0, 0, <<>>))

\* a - b, for a >= b.
NatSub(a, b) ==
    Strip(SubRec(a, b, 10, 0, 0, <<>>))

RECURSIVE Zeros(_)
Zeros(n) ==
    IF n <= 0 THEN <<>> ELSE <<0>> \o Zeros(n - 1)

\* a * 10^n.
NatShift(a, n) ==
    Strip(a \o Zeros(n))

RECURSIVE NatOfRec(_, _)
NatOfRec(n, acc) ==
    IF n = 0 THEN acc ELSE NatOfRec(n \div 10, <<n % 10>> \o acc)

\* The digits of a small natural number.
NatOf(n) ==
    IF n = 0 THEN <<0>> ELSE NatOfRec(n, <<>>)

RECURSIVE ToLimbsRec(_, _, _)
ToLimbsRec(d, i, acc) ==
    IF Len(acc) >= 0 /\ i >= Len(d)
    THEN acc
    ELSE ToLimbsRec(d, i + 4,
                    <<DigitAt(d, i) + 10 * DigitAt(d, i + 1)
                      + 100 * DigitAt(d, i + 2) + 1000 * DigitAt(d, i + 3)>> \o acc)

\* Digits to limbs and back.
ToLimbs(d) ==
    ToLimbsRec(d, 0, <<>>)

RECURSIVE FromLimbsRec(_, _, _)
FromLimbsRec(l, j, acc) ==
    IF Len(acc) >= 0 /\ j > Len(l)
    THEN acc
    ELSE FromLimbsRec(l, j + 1,
                      acc \o <<l[j] \div 1000, (l[j] \div 100) % 10,
                               (l[j] \div 10) % 10, l[j] % 10>>)

FromLimbs(l) ==
    Strip(FromLimbsRec(l, 1, <<>>))

RECURSIVE MulSmallRec(_, _, _, _, _)
MulSmallRec(a, k, i, carry, acc) ==
    IF Len(acc) >= 0 /\ carry >= 0 /\ i >= Len(a)
    THEN (IF carry = 0 THEN acc ELSE <<carry>> \o acc)
    ELSE LET t == DigitAt(a, i) * k + carry
         IN  MulSmallRec(a, k, i + 1, t \div LimbBase, <<t % LimbBase>> \o acc)

\* Limbs a times one limb k.
LimbMulSmall(a, k) ==
    Strip(MulSmallRec(a, k, 0, 0, <<>>))

LimbAdd(a, b) ==
    Strip(AddRec(a, b, LimbBase, 0, 0, <<>>))

LimbSub(a, b) ==
    Strip(SubRec(a, b, LimbBase, 0, 0, <<>>))

RECURSIVE MulRec(_, _, _, _)
MulRec(a, b, j, acc) ==
    IF Len(acc) >= 0 /\ j > Len(b)
    THEN acc
    ELSE MulRec(a, b, j + 1, LimbAdd(Append(acc, 0), LimbMulSmall(a, b[j])))

NatMul(a, b) ==
    FromLimbs(MulRec(ToLimbs(a), ToLimbs(b), 1, <<0>>))

\* Long division, a limb of the quotient at a time.  The divisor b is scaled so
\* that its leading limb is at least LimbBase / 2; the quotient limb guessed
\* from the leading limbs is then at most 2 too large, and is lowered until
\* q * b fits in the running remainder r.
RECURSIVE QLimb(_, _, _)
QLimb(r, b, q) ==
    LET p == LimbMulSmall(b, q)
    IN  IF NatCmp(p, r) > 0 THEN QLimb(r, b, q - 1) ELSE <<q, LimbSub(r, p)>>

QGuess(r, b) ==
    IF Len(r) < Len(b) THEN 0
    ELSE IF Len(r) = Len(b) THEN r[1] \div b[1]
    ELSE LET g == (r[1] * LimbBase + r[2]) \div b[1]
         IN  IF g > LimbBase - 1 THEN LimbBase - 1 ELSE g

RECURSIVE DivRec(_, _, _, _, _)
DivRec(a, b, i, rem, quo) ==
    IF Len(rem) >= 0 /\ Len(quo) >= 0 /\ i > Len(a)
    THEN <<FromLimbs(quo), rem = <<0>> >>
    ELSE LET r  == Strip(Append(rem, a[i]))
             qd == QLimb(r, b, QGuess(r, b))
         IN  DivRec(a, b, i + 1, qd[2], Append(quo, qd[1]))

DivScaled(al, bl, d) ==
    DivRec(LimbMulSmall(al, d), LimbMulSmall(bl, d), 1, <<0>>, <<0>>)

\* For b > 0: <<a div b, whether b divides a>>.
NatDivMod(a, b) ==
    DivScaled(ToLimbs(a), ToLimbs(b), LimbBase \div (ToLimbs(b)[1] + 1))

(***************************************************************************)
(* Decimal arithmetic (decimal module, default context but for prec).      *)
(* A Decimal is [s, c, e]: sign (0 or 1), coefficient and exponent; its    *)
(* value is (-1)^s * c * 10^e.  The exponent limits Emax / Emin of the     *)
(* context (+-999999) are far outside what the inputs below can produce    *)
(* and are not modelled.                                                   *)
(***************************************************************************)
Dec(s, c, e) ==
    [s |-> s, c |-> c, e |-> e]

\* Decimal(n) for a Python int given by its digits: exact, never rounded.
DecOfNat(c) ==
    Dec(0, c, 0)

\* Decimal(n) for a small int.
DecOfInt(n) ==
    IF n < 0 THEN Dec(1, NatOf(-n), 0) ELSE Dec(0, NatOf(n), 0)

IsZero(d) ==
    d.c = <<0>>

\* ROUND_HALF_EVEN: whether coefficient c, cut after its first `keep` digits,
\* is rounded up.
RoundsUp(c, keep) ==
    LET first == c[keep + 1]
        rest  == SubSeq(c, keep + 2, Len(c))
        tie   == \A i \in 1..Len(rest) : rest[i] = 0
        odd   == keep > 0 /\ c[keep] % 2 = 1
    IN  \/ first > 5
        \/ first = 5 /\ ~tie
        \/ first = 5 /\ tie /\ odd

\* Decimal._fix: round to at most prec significant digits.
DecFix(d, prec) ==
    IF IsZero(d) \/ Len(d.c) <= prec
    THEN d
    ELSE LET exp_min == Len(d.c) + d.e - prec
             kept    == SubSeq(d.c, 1, prec)
             coeff   == IF RoundsUp(d.c, prec) THEN NatAdd(kept, <<1>>) ELSE kept
         IN  IF Len(coeff) > prec
             THEN Dec(d.s, SubSeq(coeff, 1, prec), exp_min + 1)
             ELSE Dec(d.s, coeff, exp_min)

Xor(s, t) ==
    IF s = t THEN 0 ELSE 1

\* Decimal.__mul__
DecMul(a, b, prec) ==
    DecFix(Dec(Xor(a.s, b.s), NatMul(a.c, b.c), a.e + b.e), prec)

RECURSIVE TrimTo(_, _, _)
\* An exact quotient is brought as close to the ideal exponent as its trailing
\* zeros allow.
TrimTo(c, e, ideal) ==
    IF e < ideal /\ Len(c) > 1 /\ c[Len(c)] = 0
    THEN TrimTo(SubSeq(c, 1, Len(c) - 1), e + 1, ideal)
    ELSE <<c, e>>

\* The coefficient and exponent of a quotient, from qr = <<digits, exact>> at
\* exponent e: an inexact quotient ending in 0 or 5 gets a sticky last digit.
DivCoeff(qr, e, ideal) ==
    IF qr[2] THEN TrimTo(qr[1], e, ideal)
    ELSE IF qr[1][Len(qr[1])] % 5 = 0 THEN <<NatAdd(qr[1], <<1>>), e>>
    ELSE <<qr[1], e>>

DivFix(s, ce, prec) ==
    DecFix(Dec(s, ce[1], ce[2]), prec)

\* Decimal.__truediv__ for a non-zero divisor (see DivError for a zero one): the
\* coefficients are divided after one of them is shifted so that the quotient
\* has prec + 1 digits or one more.
DecDiv(a, b, prec) ==
    IF IsZero(a)
    THEN Dec(Xor(a.s, b.s), <<0>>, a.e - b.e)
    ELSE LET shift == Len(b.c) - Len(a.c) + prec + 1
         IN  DivFix(Xor(a.s, b.s),
                    DivCoeff(NatDivMod(NatShift(a.c, shift), NatShift(b.c, -shift)),
                             a.e - b.e - shift, a.e - b.e),
                    prec)

\* The exception a / b raises, "" when it raises none: both signals are trapped
\* by the default context.
DivError(a, b) ==
    IF ~IsZero(b) THEN ""
    ELSE IF IsZero(a) THEN "InvalidOperation"
    ELSE "DivisionByZero"

\* Decimal.__add__
DecAdd(a, b, prec) ==
    LET exp == IF a.e < b.e THEN a.e ELSE b.e
        pad(d, to) == Dec(d.s, NatShift(d.c, d.e - to), to)
        low(d) == IF exp > d.e - prec - 1 THEN exp ELSE d.e - prec - 1
    IN  IF IsZero(a) /\ IsZero(b)
        THEN Dec(IF a.s < b.s THEN a.s ELSE b.s, <<0>>, exp)
        ELSE IF IsZero(a) THEN DecFix(pad(b, low(b)), prec)
        ELSE IF IsZero(b) THEN DecFix(pad(a, low(a)), prec)
        ELSE LET x == NatShift(a.c, a.e - exp)
                 y == NatShift(b.c, b.e - exp)
                 cmp == NatCmp(x, y)
             IN  IF a.s = b.s THEN DecFix(Dec(a.s, NatAdd(x, y), exp), prec)
                 ELSE IF cmp = 0 THEN Dec(0, <<0>>, exp)
                 ELSE IF cmp > 0 THEN DecFix(Dec(a.s, NatSub(x, y), exp), prec)
                 ELSE DecFix(Dec(b.s, NatSub(y, x), exp), prec)

\* Decimal.__sub__
DecSub(a, b, prec) ==
    DecAdd(a, Dec(1 - b.s, b.c, b.e), prec)

RECURSIVE BitsRec(_, _)
BitsRec(n, acc) ==
    IF n = 0 THEN acc ELSE BitsRec(n \div 2, <<n % 2>> \o acc)

\* The binary digits of n > 0, most significant first.
Bits(n) ==
    BitsRec(n, <<>>)

PowStep(sq, bit, base, w) ==
    IF bit = 1 THEN DecMul(sq, base, w) ELSE sq

RECURSIVE PowRec(_, _, _, _, _)
\* Left-to-right square and multiply, every product rounded to the working
\* precision w.
PowRec(r, base, bits, i, w) ==
    IF Len(r.c) >= 0 /\ i > Len(bits)
    THEN r
    ELSE PowRec(PowStep(DecMul(r, r, w), bits[i], base, w), base, bits, i + 1, w)

\* Decimal.__pow__ for a non-zero base and an integer exponent n: the power is
\* computed at prec + (digits of n) + 2 digits (one more, and from 1 / base,
\* when n is negative) and then rounded to prec.
PowPrec(n, prec) ==
    IF n < 0 THEN prec + Len(NatOf(-n)) + 3 ELSE prec + Len(NatOf(n)) + 2

PowOf(tbase, bits, w, prec) ==
    DecFix(PowRec(tbase, tbase, bits, 2, w), prec)

DecPow(base, n, prec) ==
    IF IsZero(base) THEN Dec(0, <<0>>, 0)
    ELSE IF n = 0 THEN Dec(0, <<1>>, 0)
    ELSE PowOf(IF n < 0 THEN DecDiv(Dec(0, <<1>>, 0), base, PowPrec(n, prec)) ELSE base,
               Bits(IF n < 0 THEN -n ELSE n), PowPrec(n, prec), prec)

\* a < b, a = b, a > b as -1, 0, 1 (Decimal.__lt__ and friends compare values).
DecCmp(a, b) ==
    LET gap == IF a.e < b.e THEN b.e - a.e ELSE a.e - b.e
        d   == DecSub(a, b, Len(a.c) + Len(b.c) + gap + 1)   \* exact
    IN  IF IsZero(d) THEN 0 ELSE IF d.s = 1 THEN -1 ELSE 1

(***************************************************************************)
(* The conversions of the script.  A conversion's outcome is a record      *)
(* [err, val]: err is "" and val the Decimal returned, or err names the    *)
(* exception raised (val is then zero and means nothing).                  *)
(***************************************************************************)
Prec == 40

Ok(d) ==
    [err |-> "", val |-> d]

Raise(e) ==
    [err |-> e, val |-> Dec(0, <<0>>, 0)]

\* Division in a context that traps nothing: a zero divisor yields a value
\* (Infinity or NaN, which the model writes as zero) instead of an exception.
DivideUntrapped(a, b) ==
    IF IsZero(b) THEN Ok(Dec(0, <<0>>, 0)) ELSE Ok(DecDiv(a, b, Prec))

\* a / b in the script's context.
Divide(a, b) ==
    IF DivError(a, b) # "" THEN Raise(DivError(a, b)) ELSE Ok(DecDiv(a, b, Prec))

q_96 ==
    DecPow(DecOfInt(2), 96, Prec)

\* The last lines of both conversions: 1 / p1_per_p0 when invert is set.
Inverted(p1_per_p0, invert) ==
    IF invert THEN Divide(DecOfInt(1), p1_per_p0) ELSE Ok(p1_per_p0)

price_from_sqrt_price_x96(sqrt_price_x96, decimals_0, decimals_1, invert) ==
    LET ratio == DecDiv(DecPow(DecOfNat(sqrt_price_x96), 2, Prec),
                        DecPow(q_96, 2, Prec), Prec)
        scale == DecPow(DecOfInt(10), decimals_0 - decimals_1, Prec)
    IN  Inverted(DecMul(ratio, scale, Prec), invert)

\* The quotient rounded toward zero, as int(a / b) would.
compute_twap_truncating(ticks, window_seconds) ==
    IF ticks[2] - ticks[1] < 0
    THEN -((ticks[1] - ticks[2]) \div window_seconds)
    ELSE (ticks[2] - ticks[1]) \div window_seconds

\* compute_twap on the pair of cumulative ticks observe([window, 0]) returned.
\* Python's // and TLA+'s \div both round toward minus infinity.
compute_twap(ticks, window_seconds) ==
    LET tick_start == ticks[1]
        tick_end   == ticks[2]
    IN  (tick_end - tick_start) \div window_seconds

TickBase ==
    Dec(0, <<1, 0, 0, 0, 1>>, -4)

\* The power taken of the tick with its sign reversed.
tick_to_price_reversed(tick, decimals_0, decimals_1, invert) ==
    LET base  == DecPow(TickBase, -tick, Prec)
        scale == DecPow(DecOfInt(10), decimals_0 - decimals_1, Prec)
    IN  Inverted(DecMul(base, scale, Prec), invert)

tick_to_price(tick, decimals_0, decimals_1, invert) ==
    LET base  == DecPow(TickBase, tick, Prec)
        scale == DecPow(DecOfInt(10), decimals_0 - decimals_1, Prec)
    IN  Inverted(DecMul(base, scale, Prec), invert)

\* q * 100 for a quotient q that was not an exception.
Times100(q) ==
    IF q.err # "" THEN q ELSE Ok(DecMul(q.val, DecOfInt(100), Prec))

\* (num / den) * 100
Percent(num, den) ==
    Times100(Divide(num, den))

\* The outcome of the three signals, computed in the order of the script: the
\* first exception ends the computation.
FirstError(cross, dev_a, dev_b) ==
    [err |-> IF cross.err # "" THEN cross.err
             ELSE IF dev_a.err # "" THEN dev_a.err
             ELSE dev_b.err,
     cross_pool_deviation |-> cross.val,
     twap_deviation_a |-> dev_a.val,
     twap_deviation_b |-> dev_b.val]

\* Lines 270-272
signals(price_a, price_b, twap_price_a, twap_price_b) ==
    FirstError(
        Percent(DecSub(price_a, price_b, Prec),
                DecDiv(DecAdd(price_a, price_b, Prec), DecOfInt(2), Prec)),
        Percent(DecSub(price_a, twap_price_a, Prec), twap_price_a),
        Percent(DecSub(price_b, twap_price_b, Prec), twap_price_b))

\* float(d): a float keeps 53 bits, between 15 and 17 significant decimal
\* digits; the model keeps the 17 leading digits of d.
FloatDigits ==
    17

ToFloat(d) ==
    DecFix(d, FloatDigits)

\* fee / 100 on ints is a float.
FeePercent(fee) ==
    DecDiv(DecOfInt(fee), DecOfInt(100), FloatDigits)

\* str(d): the string spells the sign, the digits and the exponent.
DecStr(d) ==
    <<d.s, d.c, d.e>>

\* datetime.isoformat(), to the second: <<minute, second>> of the instant.
IsoFormat(t) ==
    <<t \div 60, t % 60>>

\* The instant an isoformat string names.
TimeOf(iso) ==
    60 * iso[1] + iso[2]

(***************************************************************************)
(* What the run reads from outside: the configuration, the two pool        *)
(* descriptors resolved once by get_pool_view, and the values the pool     *)
(* contracts return.                                                       *)
(***************************************************************************)
\* Configuration numbers are written in hundredths: 5 is 0.05, 100 is 1.
Hundredths == 10 * 10

\* int(v) of a non-negative configuration number.
IntOf(v) ==
    v \div Hundredths

\* An interval of 1 s with a duration of 0.05 min
ShortRun ==
    [SAMPLE_INTERVAL_SECONDS |-> 100, RUN_DURATION_MINUTES |-> 5]

Configs ==
    { ShortRun,
      [SAMPLE_INTERVAL_SECONDS |-> 5900, RUN_DURATION_MINUTES |-> 100],
      [SAMPLE_INTERVAL_SECONDS |-> 4550, RUN_DURATION_MINUTES |-> 150] }

view_a ==
    [address |-> "0xPoolA",
     token0 |-> [symbol |-> "USDC", decimals |-> 6],
     token1 |-> [symbol |-> "WETH", decimals |-> 18],
     fee |-> 500]

view_b ==
    [address |-> "0xPoolB",
     token0 |-> [symbol |-> "USDC", decimals |-> 6],
     token1 |-> [symbol |-> "WETH", decimals |-> 18],
     fee |-> 3000]

\* What the two pool contracts answer, block after block: slot0() as
\* <<sqrtPriceX96, tick>>, liquidity(), and observe([300, 0]) as the cumulative
\* ticks 300 seconds ago and now.  In the first block neither pool is initialised
\* (a square-root price of 0); then pool A is, at tick 195000; then both are.
Chain ==
    << [slot0_a |-> << <<0>>, 0 >>, liquidity_a |-> 0, observe_a |-> <<0, 0>>,
        slot0_b |-> << <<0>>, 0 >>, liquidity_b |-> 0, observe_b |-> <<0, 0>>],
       [slot0_a |-> << <<1,3,5,8,4,3,5,6,7,3,2,3,9,4,5,3,2,4,8,1,5,2,4,8,3,1,4,3,1,7,5,3,8,2>>, 195000 >>,
        liquidity_a |-> 1000000, observe_a |-> <<1000, 58501000>>,
        slot0_b |-> << <<0>>, 0 >>, liquidity_b |-> 0, observe_b |-> <<0, 0>>],
       [slot0_a |-> << <<1,3,5,9,1,1,5,0,2,6,9,3,3,2,2,5,3,3,4,6,8,5,6,9,9,7,0,8,9,3,5,8,2,8>> , 195010 >>,
        liquidity_a |-> 1200000, observe_a |-> <<4000, 58505350>>,
        slot0_b |-> << <<1,3,5,8,4,3,5,6,7,3,2,3,9,4,5,3,2,4,8,1,5,2,4,8,3,1,4,3,1,7,5,3,8,2>>, 195000 >>,
        liquidity_b |-> 2000000, observe_b |-> <<-600, 58500150>>] >>

Slot0Values ==
    { Chain[i].slot0_a : i \in 1..Len(Chain) } \cup { Chain[i].slot0_b : i \in 1..Len(Chain) }

ObserveValues ==
    { Chain[i].observe_a : i \in 1..Len(Chain) } \cup { Chain[i].observe_b : i \in 1..Len(Chain) }

\* Seconds a slow remote call takes before it returns or fails: as long as the
\* request timeout of connect_web3_client allows.  The other calls take none.
RpcTimeout == 10

\* How many remote calls of a run are slow.
MaxSlowCalls == 1

\* The clock may have moved on between the loop test and the timestamp, by up to
\* this many seconds.
MaxClockStep == 1

ClockSteps ==
    0..MaxClockStep

TwapWindow == 300

SecondsPerMinute == 60

(***************************************************************************)
(* The conversions are pure; their values on the inputs above are computed *)
(* once and looked up afterwards.                                          *)
(***************************************************************************)
SqrtPrices ==
    { v[1] : v \in Slot0Values }

TwapTicks ==
    { compute_twap(o, TwapWindow) : o \in ObserveValues }

SpotMemo ==
    [x \in SqrtPrices, v \in {view_a, view_b} |->
        price_from_sqrt_price_x96(x, v.token0.decimals, v.token1.decimals, FALSE).val]

TwapMemo ==
    [t \in TwapTicks, v \in {view_a, view_b} |->
        tick_to_price(t, v.token0.decimals, v.token1.decimals, FALSE).val]

\* price_from_sqrt_price_x96(x, decimals0, decimals1) of a pool, invert left False.
SpotPrice(x, v) ==
    SpotMemo[x, v]

\* tick_to_price(twap, decimals0, decimals1) of a pool, invert left False.
TwapPrice(t, v) ==
    TwapMemo[t, v]

Range(f) ==
    { f[k] : k \in DOMAIN f }

SpotPrices ==
    Range(SpotMemo)

TwapPrices ==
    Range(TwapMemo)

\* The signals as the record stores them: float(deviation), lines 286-288.
Floats(sig) ==
    [sig EXCEPT !.cross_pool_deviation = ToFloat(@),
                !.twap_deviation_a = ToFloat(@),
                !.twap_deviation_b = ToFloat(@)]

SignalTable(spots, twaps) ==
    [pa \in spots, pb \in spots, ta \in twaps, tb \in twaps |->
        Floats(signals(pa, pb, ta, tb))]

SignalMemo ==
    SignalTable(SpotPrices, TwapPrices)

\* The three signals of a tick, as floats, or the exception they raise.
Signals(pa, pb, ta, tb) ==
    SignalMemo[pa, pb, ta, tb]

FeeMemo ==
    [fee \in {view_a.fee, view_b.fee} |-> FeePercent(fee)]

\* view["fee"] / 100
Fee(fee) ==
    FeeMemo[fee]

(***************************************************************************)
(* run()                                                                   *)
(***************************************************************************)
VARIABLES
    pc,                \* where run() is
    now,               \* the clock: seconds
    config,            \* the configuration file
    interval_seconds,
    duration_minutes,
    start_time,        \* the clock as read when the deadline was set
    end_time,
    time_stamp,
    loc,               \* the locals a tick assigns
    rows,
    csv,               \* the lines of the output file
    saves,             \* how often the output file was written
    error,             \* the exception that ended the run, "" if none
    tested,            \* the clock as read by each loop test that passed
    left_at,           \* the clock as read by the loop test that failed
    call_time,         \* seconds spent in the remote calls of the current tick
    reads,             \* per tick, the values its remote calls returned, in order
    block,             \* the block the chain is at
    slow,              \* how many remote calls were slow so far
    call,              \* a function applied on its own: the function, its arguments
    result,            \*   and its outcome
    prev               \* the call applied before this one, with its outcome

vars ==
    <<pc, now, config, interval_seconds, duration_minutes, start_time, end_time,
      time_stamp, loc, rows, csv, saves, error, tested, left_at, call_time,
      reads, block, slow, call, result, prev>>

run_vars ==
    <<pc, now, config, interval_seconds, duration_minutes, start_time, end_time,
      time_stamp, loc, rows, csv, saves, error, tested, left_at, call_time,
      reads, block, slow>>

\* Locals not assigned yet.
Unset == -1

NoDec ==
    Dec(0, <<0>>, 0)

NoLocals ==
    [sqrt_price_x96_a |-> <<0>>, tick_a |-> Unset, liquidity_a |-> Unset,
     price_a |-> NoDec, twap_a |-> Unset, twap_price_a |-> NoDec,
     sqrt_price_x96_b |-> <<0>>, tick_b |-> Unset, liquidity_b |-> Unset,
     price_b |-> NoDec, twap_b |-> Unset, twap_price_b |-> NoDec]

NoCall ==
    [fn |-> "none"]

NoResult ==
    [err |-> "none", val |-> NoDec]

NoPrev ==
    [call |-> NoCall, result |-> NoResult]

\* run() at position p, about to read one of the configurations cs.
RunAt(p, cs) ==
    /\ pc = p
    /\ now = 0
    /\ config \in cs
    /\ interval_seconds = 0
    /\ duration_minutes = 0
    /\ start_time = 0
    /\ end_time = 0
    /\ time_stamp = IsoFormat(0)
    /\ loc = NoLocals
    /\ rows = <<>>
    /\ csv = <<>>
    /\ saves = 0
    /\ error = ""
    /\ tested = <<>>
    /\ left_at = Unset
    /\ call_time = 0
    /\ reads = <<>>
    /\ block = 1
    /\ slow = 0

Init ==
    /\ RunAt("start", Configs)
    /\ call = NoCall
    /\ result = NoResult
    /\ prev = NoPrev

\* The exception caught and the loop carried on with.
OnErrorContinue ==
    "sleep"

\* Where an exception raised inside run() takes it: nothing catches it.
OnError ==
    "raised"

\* Lines 220-244: the configuration, the connection, the two pool views, the
\* empty list of rows and the deadline.
Start ==
    /\ pc = "start"
    /\ interval_seconds' = IntOf(config.SAMPLE_INTERVAL_SECONDS)
    /\ duration_minutes' = IntOf(config.RUN_DURATION_MINUTES)
    /\ rows' = <<>>
    /\ start_time' = now
    /\ end_time' = now + duration_minutes' * SecondsPerMinute
    /\ pc' = "loop"
    /\ UNCHANGED <<now, config, time_stamp, loc, csv, saves, error, tested,
                   left_at, call_time, reads, block, slow, call, result, prev>>

\* The connection or a descriptor call of get_pool_view fails.
StartFails ==
    /\ pc = "start"
    /\ pc' = OnError
    /\ error' = "RemoteCallError"
    /\ UNCHANGED <<now, config, interval_seconds, duration_minutes, start_time,
                   end_time, time_stamp, loc, rows, csv, saves, tested, left_at,
                   call_time, reads, block, slow, call, result, prev>>

BeforeOrAt(t, end) ==
    t <= end

\* The loop condition: datetime.now(timezone.utc) < end_time
Before(t, end) ==
    t < end

LoopTest ==
    /\ pc = "loop"
    /\ IF Before(now, end_time)
       THEN /\ pc' = "stamp"
            /\ tested' = Append(tested, now)
            /\ UNCHANGED left_at
       ELSE /\ pc' = "save"
            /\ left_at' = now
            /\ UNCHANGED tested
    /\ UNCHANGED <<now, config, interval_seconds, duration_minutes, start_time,
                   end_time, time_stamp, loc, rows, csv, saves, error, call_time,
                   reads, block, slow, call, result, prev>>

\* Line 248: a second read of the clock.
Stamp ==
    /\ pc = "stamp"
    /\ \E d \in ClockSteps :
         /\ now' = now + d
         /\ time_stamp' = IsoFormat(now')
    /\ reads' = Append(reads, <<time_stamp'>>)
    /\ call_time' = 0
    /\ pc' = "slot0_a"
    /\ UNCHANGED <<config, interval_seconds, duration_minutes, start_time, end_time,
                   loc, rows, csv, saves, error, tested, left_at, block, slow,
                   call, result, prev>>

\* A remote call takes no time, or is one of the slow ones.
Takes(d) ==
    /\ \/ d = 0 /\ slow' = slow
       \/ d = RpcTimeout /\ slow < MaxSlowCalls /\ slow' = slow + 1
    /\ now' = now + d
    /\ call_time' = call_time + d

\* A remote call of the tick returns r.
Returned(r) ==
    /\ \E d \in {0, RpcTimeout} : Takes(d)
    /\ reads' = [reads EXCEPT ![Len(reads)] = Append(@, r)]
    /\ UNCHANGED <<config, interval_seconds, duration_minutes, start_time, end_time,
                   time_stamp, rows, csv, saves, error, tested, left_at, block,
                   call, result, prev>>

StoreSlot0A(l, r) ==
    [l EXCEPT !.sqrt_price_x96_a = r[1], !.tick_a = r[2]]

StoreLiquidityA(l, r) ==
    [l EXCEPT !.liquidity_a = r,
              !.price_a = SpotPrice(l.sqrt_price_x96_a, view_a)]

StoreTwapA(l, r) ==
    LET twap == compute_twap(r, TwapWindow)
    IN  [l EXCEPT !.twap_a = twap, !.twap_price_a = TwapPrice(twap, view_a)]

StoreSlot0B(l, r) ==
    [l EXCEPT !.sqrt_price_x96_b = r[1], !.tick_b = r[2]]

StoreLiquidityB(l, r) ==
    [l EXCEPT !.liquidity_b = r,
              !.price_b = SpotPrice(l.sqrt_price_x96_b, view_b)]

\* The TWAP of pool B computed in the first tick only and kept afterwards.
StoreTwapBOnce(l, r) ==
    IF l.twap_b # Unset
    THEN l
    ELSE [l EXCEPT !.twap_b = compute_twap(r, TwapWindow),
                   !.twap_price_b = TwapPrice(compute_twap(r, TwapWindow), view_b)]

StoreTwapB(l, r) ==
    LET twap == compute_twap(r, TwapWindow)
    IN  [l EXCEPT !.twap_b = twap, !.twap_price_b = TwapPrice(twap, view_b)]

\* Lines 251-253
ReadSlot0A ==
    /\ pc = "slot0_a"
    /\ loc' = StoreSlot0A(loc, Chain[block].slot0_a)
    /\ Returned(Chain[block].slot0_a)
    /\ pc' = "liquidity_a"

\* Lines 254-255
ReadLiquidityA ==
    /\ pc = "liquidity_a"
    /\ loc' = StoreLiquidityA(loc, Chain[block].liquidity_a)
    /\ Returned(Chain[block].liquidity_a)
    /\ pc' = "twap_a"

\* Lines 256-257
ReadTwapA ==
    /\ pc = "twap_a"
    /\ loc' = StoreTwapA(loc, Chain[block].observe_a)
    /\ Returned(Chain[block].observe_a)
    /\ pc' = "slot0_b"

\* Lines 260-262
ReadSlot0B ==
    /\ pc = "slot0_b"
    /\ loc' = StoreSlot0B(loc, Chain[block].slot0_b)
    /\ Returned(Chain[block].slot0_b)
    /\ pc' = "liquidity_b"

\* Lines 263-264
ReadLiquidityB ==
    /\ pc = "liquidity_b"
    /\ loc' = StoreLiquidityB(loc, Chain[block].liquidity_b)
    /\ Returned(Chain[block].liquidity_b)
    /\ pc' = "twap_b"

\* Lines 265-266
ReadTwapB ==
    /\ pc = "twap_b"
    /\ loc' = StoreTwapB(loc, Chain[block].observe_b)
    /\ Returned(Chain[block].observe_b)
    /\ pc' = "signals"

CallPcs ==
    { "slot0_a", "liquidity_a", "twap_a", "slot0_b", "liquidity_b", "twap_b" }

\* A remote call of the tick raises (the node refuses, the contract reverts, the
\* request times out).
CallFails ==
    /\ pc \in CallPcs
    /\ \E d \in {0, RpcTimeout} : Takes(d)
    /\ error' = "RemoteCallError"
    /\ pc' = OnError
    /\ UNCHANGED <<config, interval_seconds, duration_minutes, start_time, end_time,
                   time_stamp, loc, rows, csv, saves, tested, left_at, reads, block,
                   call, result, prev>>

\* The chain moves on to its next block while the run is under way.
Mine ==
    /\ pc \notin {"done", "raised"}
    /\ block < Len(Chain)
    /\ block' = block + 1
    /\ UNCHANGED <<pc, now, config, interval_seconds, duration_minutes, start_time,
                   end_time, time_stamp, loc, rows, csv, saves, error, tested,
                   left_at, call_time, reads, slow, call, result, prev>>

\* The dict appended to rows.
MakeRow(stamp, l, sig) ==
    [timestamp |-> stamp,
     poolA_address |-> view_a.address,
     poolB_address |-> view_b.address,
     symbol_pair |-> <<view_a.token0.symbol, "/", view_a.token1.symbol>>,
     fee_a |-> Fee(view_a.fee),
     fee_b |-> Fee(view_b.fee),
     priceA_token1_per_token0 |-> DecStr(l.price_a),
     priceB_token1_per_token0 |-> DecStr(l.price_b),
     twapA_tick |-> DecStr(l.twap_price_a),
     twapB_tick |-> DecStr(l.twap_price_b),
     twap_deviation_a |-> sig.twap_deviation_a,
     twap_deviation_b |-> sig.twap_deviation_b,
     cross_pool_deviation |-> sig.cross_pool_deviation,
     liquidityA |-> l.liquidity_a,
     liquidityB |-> l.liquidity_b,
     tickA |-> l.tick_a,
     tickB |-> l.tick_b]

\* Lines 268-298: the signals and the row of the tick.
Computed(sig) ==
    IF sig.err # ""
    THEN /\ pc' = OnError
         /\ error' = sig.err
         /\ UNCHANGED rows
    ELSE /\ pc' = "sleep"
         /\ rows' = Append(rows, MakeRow(time_stamp, loc, sig))
         /\ UNCHANGED error

Compute ==
    /\ pc = "signals"
    /\ Computed(Signals(loc.price_a, loc.price_b, loc.twap_price_a, loc.twap_price_b))
    /\ UNCHANGED <<now, config, interval_seconds, duration_minutes, start_time,
                   end_time, time_stamp, loc, csv, saves, tested, left_at,
                   call_time, reads, block, slow, call, result, prev>>

\* The interval taken for minutes.
AfterSleepMinutes(t, interval) ==
    t + interval * SecondsPerMinute

\* The clock after time.sleep(interval) begun at t.
AfterSleep(t, interval) ==
    t + interval

\* time.sleep(interval_seconds)
Sleep ==
    /\ pc = "sleep"
    /\ now' = AfterSleep(now, interval_seconds)
    /\ pc' = "loop"
    /\ UNCHANGED <<config, interval_seconds, duration_minutes, start_time, end_time,
                   time_stamp, loc, rows, csv, saves, error, tested, left_at,
                   call_time, reads, block, slow, call, result, prev>>

Columns ==
    <<"timestamp", "poolA_address", "poolB_address", "symbol_pair", "fee_a",
      "fee_b", "priceA_token1_per_token0", "priceB_token1_per_token0",
      "twapA_tick", "twapB_tick", "twap_deviation_a", "twap_deviation_b",
      "cross_pool_deviation", "liquidityA", "liquidityB", "tickA", "tickB">>

\* A row as a line of the file: its values in the order of the columns.
CsvLine(row) ==
    [i \in 1..Len(Columns) |-> row[Columns[i]]]

\* The file holding the header and the last row only.
ToCsvLastOnly(rs) ==
    IF rs = <<>> THEN << <<>> >> ELSE <<Columns, CsvLine(rs[Len(rs)])>>

\* pd.DataFrame(rows).to_csv(index=False): the header, then a line per row.  A
\* frame made of no rows has no columns, and its header is empty.
ToCsv(rs) ==
    <<IF rs = <<>> THEN <<>> ELSE Columns>> \o [i \in 1..Len(rs) |-> CsvLine(rs[i])]

Save ==
    /\ pc = "save"
    /\ csv' = ToCsv(rows)
    /\ saves' = saves + 1
    /\ pc' = "done"
    /\ UNCHANGED <<now, config, interval_seconds, duration_minutes, start_time,
                   end_time, time_stamp, loc, rows, error, tested, left_at,
                   call_time, reads, block, slow, call, result, prev>>

Run ==
    \/ Start
    \/ StartFails
    \/ LoopTest
    \/ Stamp
    \/ ReadSlot0A
    \/ ReadLiquidityA
    \/ ReadTwapA
    \/ ReadSlot0B
    \/ ReadLiquidityB
    \/ ReadTwapB
    \/ CallFails
    \/ Compute
    \/ Sleep
    \/ Save

Next ==
    Run \/ Mine

Spec ==
    Init /\ [][Next]_vars

\* run() is one sequential thread: whatever step it is at, it takes it.
FairSpec ==
    Spec /\ WF_vars(Run)

(***************************************************************************)
(* The functions applied on their own: a call is drawn from the sets       *)
(* below, run() standing idle, and the function is applied to it.  A       *)
(* tick_to_price call may be followed by another one at a greater tick.    *)
(***************************************************************************)
\* Cumulative ticks run over -MaxCum..MaxCum and windows over 1..MaxWindow.
MaxCum == 4

MaxWindow == 3

\* Ticks run over -MaxTick..MaxTick, next to the ticks of the chain above
\* and the two ends of the tick range of Uniswap v3.
MaxTick == 3

TwapCalls ==
    { [fn |-> "compute_twap", ticks |-> <<a, b>>, window_seconds |-> w] :
        a \in -MaxCum..MaxCum, b \in -MaxCum..MaxCum, w \in 1..MaxWindow }
    \cup
    { [fn |-> "compute_twap", ticks |-> t, window_seconds |-> TwapWindow] :
        t \in { <<1000, 4000>>, <<1000, 4450>>, <<4000, 1000>>, <<4450, 1000>> }
              \cup ObserveValues }

DecimalPairs ==
    { <<6, 18>>, <<18, 6>>, <<18, 18>> }

\* 0, 1, 2^96 and the square-root prices of the chain above.
SqrtInputs ==
    SqrtPrices \cup { <<1>>, q_96.c }

PriceCalls ==
    { [fn |-> "price_from_sqrt_price_x96", sqrt_price_x96 |-> x,
       decimals_0 |-> d[1], decimals_1 |-> d[2], invert |-> i] :
        x \in SqrtInputs, d \in DecimalPairs, i \in BOOLEAN }

TickInputs ==
    (-MaxTick..MaxTick) \cup { -887272, -195000, 195000, 887272 }

TickCalls ==
    { [fn |-> "tick_to_price", tick |-> t,
       decimals_0 |-> d[1], decimals_1 |-> d[2], invert |-> i] :
        t \in TickInputs, d \in DecimalPairs, i \in BOOLEAN }

\* The prices the signals are computed from: those of the chain above, a spot
\* price of zero among them, and a TWAP price of zero.
SignalCalls ==
    { [fn |-> "signals", price_a |-> pa, price_b |-> pb,
       twap_price_a |-> ta, twap_price_b |-> tb] :
        pa \in SpotPrices, pb \in SpotPrices,
        ta \in TwapPrices \cup {NoDec}, tb \in TwapPrices \cup {NoDec} }

Calls ==
    TwapCalls \cup PriceCalls \cup TickCalls \cup SignalCalls

NoConfig ==
    [SAMPLE_INTERVAL_SECONDS |-> 0, RUN_DURATION_MINUTES |-> 0]

FnInit ==
    /\ RunAt("idle", {NoConfig})
    /\ call \in Calls
    /\ result = NoResult
    /\ prev = NoPrev

Pending(fn) ==
    call.fn = fn /\ result.err = "none"

Applied(fn) ==
    call.fn = fn /\ result.err # "none"

ApplyTwap ==
    /\ Pending("compute_twap")
    /\ result' = [err |-> "", val |-> compute_twap(call.ticks, call.window_seconds)]
    /\ UNCHANGED <<run_vars, call, prev>>

ApplyPrice ==
    /\ Pending("price_from_sqrt_price_x96")
    /\ result' = price_from_sqrt_price_x96(call.sqrt_price_x96, call.decimals_0,
                                           call.decimals_1, call.invert)
    /\ UNCHANGED <<run_vars, call, prev>>

ApplyTick ==
    /\ Pending("tick_to_price")
    /\ result' = tick_to_price(call.tick, call.decimals_0, call.decimals_1, call.invert)
    /\ UNCHANGED <<run_vars, call, prev>>

ApplySignals ==
    /\ Pending("signals")
    /\ result' = signals(call.price_a, call.price_b, call.twap_price_a, call.twap_price_b)
    /\ UNCHANGED <<run_vars, call, prev>>

\* tick_to_price once more, on a greater tick and otherwise as before.
NextTick ==
    /\ Applied("tick_to_price")
    /\ ~call.invert
    /\ \E t \in TickInputs :
         /\ t > call.tick
         /\ call' = [call EXCEPT !.tick = t]
    /\ prev' = [call |-> call, result |-> result]
    /\ result' = NoResult
    /\ UNCHANGED run_vars

FnNext ==
    \/ ApplyTwap
    \/ ApplyPrice
    \/ ApplyTick
    \/ ApplySignals
    \/ NextTick

FnSpec ==
    FnInit /\ [][FnNext]_vars

(***************************************************************************)
(* Properties of run().                                                    *)
(***************************************************************************)
Running ==
    pc \notin {"start", "idle"}

Left ==
    pc \in {"save", "done"}

RowTime(i) ==
    TimeOf(rows[i].timestamp)

C2_ExitWithinOneInterval ==
    Left => left_at <= end_time + interval_seconds

\* C2: the loop is left when the iteration under way at the deadline ends: the
\* exit comes after the timestamp of the last iteration by the time its remote
\* calls took plus one interval, that iteration was started before the deadline
\* and the timestamp follows its start; a run that starts no iteration leaves
\* at once.  The overrun is less than the last iteration lasted, remote calls
\* included, and not less than one interval in general.
C2_ExitAfterLastIteration ==
    Left =>
        IF tested = <<>>
        THEN left_at = start_time
        ELSE /\ left_at = TimeOf(time_stamp) + call_time + interval_seconds
             /\ tested[Len(tested)] < end_time
             /\ tested[Len(tested)] <= TimeOf(time_stamp)
             /\ left_at - end_time
                  < (TimeOf(time_stamp) - tested[Len(tested)]) + call_time + interval_seconds

\* C2: the loop was left more than one interval after the deadline, a remote
\* call of the last iteration having been slow.
C2_Witness ==
    /\ Left
    /\ call_time > 0
    /\ left_at > end_time + interval_seconds

\* C3: with an interval of 1 s and a duration of 0.05 min, a run in which no
\* call fails appends between 1 and 4 records, the last of them stamped at
\* start time + 3 s - 1 s or later.
C3_ShortRunRecords ==
    (config = ShortRun /\ pc = "done") =>
        /\ Len(rows) >= 1
        /\ Len(rows) <= 4
        /\ RowTime(Len(rows))
             >= start_time + (ShortRun.RUN_DURATION_MINUTES * SecondsPerMinute) \div Hundredths
                  - IntOf(ShortRun.SAMPLE_INTERVAL_SECONDS)

\* C4: a failure in a tick (a remote call that fails, an arithmetic error in the
\* signals) ends the run at once: the step that fails appends no record and
\* takes run() to its end by exception, where nothing more happens; the run
\* then holds one record less than it started iterations, and the file was not
\* written.
C4_FailureEndsRun ==
    /\ [](pc = "raised" =>
            /\ error # ""
            /\ saves = 0
            /\ csv = <<>>
            /\ Len(rows) = (IF tested = <<>> THEN 0 ELSE Len(tested) - 1))
    /\ [][/\ error' # error => (pc' = "raised" /\ rows' = rows /\ saves' = saves)
          /\ pc = "raised" => UNCHANGED <<pc, rows, csv, saves, tested, reads>>
          /\ error # "" => pc = "raised"]_vars

\* C4: the run ended by a failure in its second tick: the record of the first
\* is not written.
C4_Witness ==
    /\ pc = "raised"
    /\ Len(rows) = 1
    /\ Len(tested) = 2
    /\ saves = 0

\* The locals a tick assigns, from what the tick captured: its timestamp, then
\* the results of its six remote calls in the order they were made.
LocalsOf(rd) ==
    [sqrt_price_x96_a |-> rd[2][1], tick_a |-> rd[2][2], liquidity_a |-> rd[3],
     price_a |-> SpotPrice(rd[2][1], view_a),
     twap_a |-> compute_twap(rd[4], TwapWindow),
     twap_price_a |-> TwapPrice(compute_twap(rd[4], TwapWindow), view_a),
     sqrt_price_x96_b |-> rd[5][1], tick_b |-> rd[5][2], liquidity_b |-> rd[6],
     price_b |-> SpotPrice(rd[5][1], view_b),
     twap_b |-> compute_twap(rd[7], TwapWindow),
     twap_price_b |-> TwapPrice(compute_twap(rd[7], TwapWindow), view_b)]

RowOfLocals(stamp, l) ==
    MakeRow(stamp, l, Signals(l.price_a, l.price_b, l.twap_price_a, l.twap_price_b))

RowOf(rd) ==
    RowOfLocals(rd[1], LocalsOf(rd))

\* C9: every record appended is the record its own iteration defines: the one
\* built from the timestamp and the slot0, liquidity and observe results of
\* both pools that were captured in that iteration, in the order of the calls.
C9_RecordFromOwnIteration ==
    /\ Len(rows) <= Len(reads)
    /\ \A i \in 1..Len(rows) : Len(reads[i]) = 7 /\ rows[i] = RowOf(reads[i])

\* C9: two records were appended and the pools had changed in between.
C9_Witness ==
    /\ Len(rows) = 2
    /\ rows[1].tickA # rows[2].tickA
    /\ rows[1].twapB_tick # rows[2].twapB_tick

\* C10: a run in which nothing fails leaves the loop and writes the file; the
\* file is written once, after the loop was left, and holds the header and the
\* records appended, one per iteration started, in the order they were
\* appended; their timestamps never decrease, and a record once appended is
\* neither changed nor removed.
C10_ExportsAllRecordsOnce ==
    /\ <>(pc = "done" \/ error # "")
    /\ [](/\ saves <= 1
          /\ saves = 1 <=> pc = "done"
          /\ pc = "done" =>
               /\ left_at >= end_time
               /\ Len(rows) = Len(tested)
               /\ Len(csv) = Len(rows) + 1
               /\ \A i \in 1..Len(rows) : csv[i + 1] = CsvLine(rows[i])
          /\ \A i \in 1..Len(rows) : \A j \in i..Len(rows) : RowTime(i) <= RowTime(j))
    /\ [][Len(rows') >= Len(rows) /\ SubSeq(rows', 1, Len(rows)) = rows]_vars

\* C10: the run is over and its file holds two records.
C10_Witness ==
    /\ pc = "done"
    /\ saves = 1
    /\ Len(rows) = 2
    /\ Len(csv) = 3

(***************************************************************************)
(* Properties of the functions.                                            *)
(***************************************************************************)
\* C5: when a TWAP price is zero or the average of the two spot prices is
\* zero, the signals end in an arithmetic exception (DivisionByZero, or
\* InvalidOperation for 0 / 0) and yield no deviation.
C5_ZeroDivisorRaises ==
    Applied("signals") =>
        ((\/ IsZero(call.twap_price_a)
          \/ IsZero(call.twap_price_b)
          \/ IsZero(DecDiv(DecAdd(call.price_a, call.price_b, Prec), DecOfInt(2), Prec)))
         => result.err \in {"DivisionByZero", "InvalidOperation"})

\* C5: the signals were computed from a TWAP price of zero, the spot prices not
\* being zero, and ended in DivisionByZero.
C5_Witness ==
    /\ Applied("signals")
    /\ IsZero(call.twap_price_b)
    /\ ~IsZero(call.twap_price_a)
    /\ ~IsZero(call.price_a)
    /\ ~IsZero(call.price_b)
    /\ result.err = "DivisionByZero"

\* C6: compute_twap returns the floor of (c_end - c_start) / window: the integer
\* q with q * window <= c_end - c_start < (q + 1) * window; (1000, 4000, 300)
\* gives 10 and (1000, 4450, 300) gives 11.
C6_TwapIsFloor ==
    Applied("compute_twap") =>
        /\ result.val * call.window_seconds <= call.ticks[2] - call.ticks[1]
        /\ call.ticks[2] - call.ticks[1] < (result.val + 1) * call.window_seconds
        /\ (call.ticks = <<1000, 4000>> /\ call.window_seconds = 300) => result.val = 10
        /\ (call.ticks = <<1000, 4450>> /\ call.window_seconds = 300) => result.val = 11

\* C6: compute_twap was applied to a negative difference the window does not
\* divide.
C6_Witness ==
    /\ Applied("compute_twap")
    /\ call.ticks = <<4450, 1000>>
    /\ call.window_seconds = 300
    /\ result.val = -12

\* C7: price_from_sqrt_price_x96 with invert set returns, without an error, the
\* reciprocal of the price it returns with invert not set.
C7_InvertedIsReciprocal ==
    (Applied("price_from_sqrt_price_x96") /\ call.invert) =>
        /\ result.err = ""
        /\ result.val
             = DecDiv(DecOfInt(1),
                      price_from_sqrt_price_x96(call.sqrt_price_x96, call.decimals_0,
                                                call.decimals_1, FALSE).val,
                      Prec)

\* C8: with invert not set, tick_to_price at tick 0 is 10^(d0 - d1), and
\* tick_to_price at a greater tick is a greater price.
C8_TickPriceIncreasing ==
    (Applied("tick_to_price") /\ ~call.invert) =>
        /\ result.err = ""
        /\ call.tick = 0 =>
             DecCmp(result.val, Dec(0, <<1>>, call.decimals_0 - call.decimals_1)) = 0
        /\ prev.call.fn = "tick_to_price" =>
             /\ prev.call.tick < call.tick
             /\ prev.call.decimals_0 = call.decimals_0
             /\ prev.call.decimals_1 = call.decimals_1
             /\ DecCmp(prev.result.val, result.val) < 0

\* C8: tick_to_price was applied to a negative tick and then to the next one.
C8_Witness ==
    /\ Applied("tick_to_price")
    /\ ~call.invert
    /\ prev.call.fn = "tick_to_price"
    /\ prev.call.tick < 0
    /\ call.tick = prev.call.tick + 1

====
